---- MODULE Spec2Model ----
(***************************************************************************)
(* Company membership, invitation and role-gated endpoints of the          *)
(* SE-Better-Start backend (FastAPI + SQLModel).                            *)
(*                                                                         *)
(* The store is a set of rows per table.  Every handler that performs one  *)
(* read-modify-commit is one action; create_company and                    *)
(* join_company_via_invite, which read, then commit later, are split at    *)
(* their commit points so that concurrent requests interleave there.       *)
(* ev is the observable outcome of the step just taken (the HTTP response  *)
(* of the handler, or "pending" for a step that has not answered yet).     *)
(***************************************************************************)
EXTENDS Integers, FiniteSets, Sequences, Bags, TLC

VARIABLES
    users,          \* User rows: [email, password]
    companies,      \* Company rows: [id, user_id, name]
    members,        \* CompanyMember rows, a bag of [user_id, company_id, role, position]
    tasks,          \* Task rows: [id, status]
    taskMembers,    \* TaskMember rows: [task_id, user_id]
    sales,          \* Sale rows: [id, company_id, status]
    sessions,       \* per client, the session token it was last given
    invites,        \* invitation tokens issued so far (bearer capabilities)
    now,            \* wall clock, in hours
    req,            \* in-flight requests (a bag: two may be alike)
    ev,             \* outcome of the last step
    uniqueUserId,   \* does the store enforce UNIQUE(CompanyMember.user_id)?
    decoderRaises   \* does decode_jwt_token raise on a bad token (else: returns None)?

vars == <<users, companies, members, tasks, taskMembers, sales, sessions, invites, now,
          req, ev, uniqueUserId, decoderRaises>>

-----------------------------------------------------------------------------
(* Bounds of the model *)
MaxReq       == 2      \* concurrent multi-step requests
MaxCompanies == 2
MaxMembers   == 3
MaxInvites   == 1
MaxTasks     == 1
MaxSales     == 1
MaxTaskUsers == 1
MaxTicks     == 1      \* clock steps

(* Program constants *)
InviteTTLHours == 24   \* timedelta(hours=24)
TickHours      == 25   \* granularity of the modelled clock

Emails    == {"u1", "u2"}          \* addresses that sign up
Addresses == Emails \cup {"u3"}     \* addresses an invitation can be mailed to
Passwords == {"pw"}
NoEmail   == "none"    \* Python None for an e-mail
NoRole    == "None"    \* Python None for a role
NoCompany == 0         \* Python None for a company id

ADMIN  == "Admin"
MEMBER == "Member"
KanbanStatus == {"todo", "done"}

NoSession == [email |-> NoEmail, company_id |-> NoCompany, role |-> NoRole]
NoToken   == [new_member_email |-> NoEmail, company_id |-> NoCompany, role |-> NoRole,
              position |-> "", exp |-> 0, signed |-> FALSE]

-----------------------------------------------------------------------------
(* Helpers *)

Ev(op, status, detail) ==
    [op |-> op, status |-> status, detail |-> detail]

\* select(CompanyMember).where(CompanyMember.user_id == email)
MembershipsOf(email) == {m \in BagToSet(members) : m.user_id = email}

\* select(CompanyMember).where(user_id == user.email, company_id == user.company_id)
MembershipsIn(email, cid) ==
    {m \in BagToSet(members) : m.user_id = email /\ m.company_id = cid}

\* autoincrement primary key of a table whose rows are never deleted
NextId(rows) == Cardinality(rows) + 1

\* hashing.hash / hashing.verify
Hash(pw) == <<"hash", pw>>
Verify(pw, hashed) == hashed = Hash(pw)

\* create_jwt_token(payload, expires_delta): signs payload plus exp = now + ttl
create_jwt_token(email, cid, role, position, ttl) ==
    [new_member_email |-> email, company_id |-> cid, role |-> role,
     position |-> position, exp |-> now + ttl, signed |-> TRUE]

\* decode_jwt_token succeeds iff the signature verifies and exp has not passed
TokenValid(t) == t.signed /\ now <= t.exp

\* tokens nobody signed: what an outsider can put in the query string
ForgedTokens ==
    {[new_member_email |-> "u2", company_id |-> 1, role |-> ADMIN,
      position |-> "Employee", exp |-> MaxTicks * TickHours + InviteTTLHours,
      signed |-> FALSE]}

\* oauth2.get_current_user: the claims of a session token some client holds
Callers == {sessions[e] : e \in Emails} \ {NoSession}

\* the local variables of a handler that has not returned yet
Request(op, pc, user, token) ==
    SetToBag({[op |-> op, pc |-> pc, user |-> user, token |-> token,
               cid |-> NoCompany]})

\* a commit that adds CompanyMember row(s) for user_id is refused by the store
ViolatesUnique(user_id) ==
    uniqueUserId /\ user_id # NoEmail /\ MembershipsOf(user_id) # {}

\* session.add(CompanyMember(...)); session.commit(): one more row in the table
NewMember(user_id, cid, role, position) ==
    SetToBag({[user_id |-> user_id, company_id |-> cid, role |-> role,
               position |-> position]})

-----------------------------------------------------------------------------
Init ==
    /\ users = {}
    /\ companies = {}
    /\ members = EmptyBag
    /\ tasks = {}
    /\ taskMembers = {}
    /\ sales = {}
    /\ sessions = [e \in Emails |-> NoSession]
    /\ invites = {}
    /\ now = 0
    /\ req = EmptyBag
    /\ ev = Ev("init", "", "")
    /\ uniqueUserId \in BOOLEAN
    /\ decoderRaises \in BOOLEAN

-----------------------------------------------------------------------------
(* user_services *)

create_user(email, pw) ==
    /\ IF \E u \in users : u.email = email
       THEN /\ ev' = Ev("create_user", "400", "email_exists")
            /\ UNCHANGED users
       ELSE /\ users' = users \cup {[email |-> email, password |-> Hash(pw)]}
            /\ ev' = Ev("create_user", "200", "")
    /\ UNCHANGED <<companies, members, tasks, taskMembers, sales, sessions, invites, now, req,
                   uniqueUserId, decoderRaises>>

\* a commit that adds a User row with this email is refused by the store:
\* User.email is unique
ViolatesUniqueEmail(email) == \E u \in users : u.email = email

\* create_user without lines 13-19: no lookup before the insert
create_user_check_unchecked(email, pw) ==
    /\ BagCardinality(req) < MaxReq
    /\ req' = req (+) Request("create_user", "insert",
                              [email |-> email, password |-> Hash(pw)], NoToken)
    /\ ev' = Ev("create_user", "pending", "checked")
    /\ UNCHANGED <<users, companies, members, tasks, taskMembers, sales, sessions,
                   invites, now, uniqueUserId, decoderRaises>>

\* create_user up to line 22: the lookup, then the hash
create_user_check(email, pw) ==
    /\ BagCardinality(req) < MaxReq
    /\ IF \E u \in users : u.email = email
       THEN /\ ev' = Ev("create_user", "400", "email_exists")
            /\ UNCHANGED req
       ELSE /\ req' = req (+) Request("create_user", "insert",
                                      [email |-> email, password |-> Hash(pw)], NoToken)
            /\ ev' = Ev("create_user", "pending", "checked")
    /\ UNCHANGED <<users, companies, members, tasks, taskMembers, sales, sessions,
                   invites, now, uniqueUserId, decoderRaises>>

\* create_user from line 25: add, commit, refresh
create_user_insert(r) ==
    /\ r.op = "create_user" /\ r.pc = "insert"
    /\ IF ViolatesUniqueEmail(r.user.email)
       THEN /\ ev' = Ev("create_user", "500", "integrity_error")
            /\ UNCHANGED users
       ELSE /\ users' = users \cup {r.user}
            /\ ev' = Ev("create_user", "200", "")
    /\ req' = req (-) SetToBag({r})
    /\ UNCHANGED <<companies, members, tasks, taskMembers, sales, sessions, invites,
                   now, uniqueUserId, decoderRaises>>

\* authenticate_user without the password half of line 37: `if not user`
authenticate_user_no_verify(email, pw) ==
    /\ IF \A u \in users : u.email # email
       THEN /\ ev' = Ev("authenticate_user", "401", "invalid_credentials")
            /\ UNCHANGED sessions
       ELSE \E tok \in
                IF MembershipsOf(email) = {}
                THEN {[email |-> email, company_id |-> NoCompany, role |-> NoRole]}
                ELSE {[email |-> email, company_id |-> m.company_id, role |-> m.role] :
                        m \in MembershipsOf(email)} :
              /\ sessions' = [sessions EXCEPT ![email] = tok]
              /\ ev' = Ev("authenticate_user", "200", "")
    /\ UNCHANGED <<users, companies, members, tasks, taskMembers, sales, invites, now, req,
                   uniqueUserId, decoderRaises>>

\* authenticate_user with the where clause of line 45 dropped: the first
\* CompanyMember row of the table, whoever it belongs to
authenticate_user_any_row(email, pw) ==
    /\ IF \A u \in users : u.email # email \/ ~Verify(pw, u.password)
       THEN /\ ev' = Ev("authenticate_user", "401", "invalid_credentials")
            /\ UNCHANGED sessions
       ELSE \E tok \in
                IF BagToSet(members) = {}
                THEN {[email |-> email, company_id |-> NoCompany, role |-> NoRole]}
                ELSE {[email |-> email, company_id |-> m.company_id, role |-> m.role] :
                        m \in BagToSet(members)} :
              /\ sessions' = [sessions EXCEPT ![email] = tok]
              /\ ev' = Ev("authenticate_user", "200", "")
    /\ UNCHANGED <<users, companies, members, tasks, taskMembers, sales, invites, now, req,
                   uniqueUserId, decoderRaises>>

authenticate_user(email, pw) ==
    /\ IF \A u \in users : u.email # email \/ ~Verify(pw, u.password)
       THEN /\ ev' = Ev("authenticate_user", "401", "invalid_credentials")
            /\ UNCHANGED sessions
       ELSE \E tok \in
                IF MembershipsOf(email) = {}
                THEN {[email |-> email, company_id |-> NoCompany, role |-> NoRole]}
                ELSE {[email |-> email, company_id |-> m.company_id, role |-> m.role] :
                        m \in MembershipsOf(email)} :
              /\ sessions' = [sessions EXCEPT ![email] = tok]
              /\ ev' = Ev("authenticate_user", "200", "")
    /\ UNCHANGED <<users, companies, members, tasks, taskMembers, sales, invites, now, req,
                   uniqueUserId, decoderRaises>>

-----------------------------------------------------------------------------
(* company_router: create_company *)

\* create_company without lines 40-44: the membership check is skipped
create_company_check_unchecked(s) ==
    /\ BagCardinality(req) < MaxReq
    /\ req' = req (+) Request("create_company", "insert_company", s, NoToken)
    /\ ev' = Ev("create_company", "pending", "checked")
    /\ UNCHANGED <<users, companies, members, tasks, taskMembers, sales, sessions, invites, now,
                   uniqueUserId, decoderRaises>>

create_company_check(s) ==
    /\ BagCardinality(req) < MaxReq
    /\ IF MembershipsOf(s.email) # {}
       THEN /\ ev' = Ev("create_company", "403", "already_member")
            /\ UNCHANGED req
       ELSE /\ req' = req (+) Request("create_company", "insert_company", s, NoToken)
            /\ ev' = Ev("create_company", "pending", "checked")
    /\ UNCHANGED <<users, companies, members, tasks, taskMembers, sales, sessions, invites, now,
                   uniqueUserId, decoderRaises>>

create_company_insert_company(r) ==
    /\ r.op = "create_company" /\ r.pc = "insert_company"
    /\ Cardinality(companies) < MaxCompanies
    /\ LET id == NextId(companies) IN
         /\ companies' = companies \cup
                {[id |-> id, user_id |-> r.user.email, name |-> "acme"]}
         /\ req' = (req (-) SetToBag({r})) (+)
                      SetToBag({[r EXCEPT !.pc = "insert_member", !.cid = id]})
    /\ ev' = Ev("create_company", "pending", "company_committed")
    /\ UNCHANGED <<users, members, tasks, taskMembers, sales, sessions, invites, now,
                   uniqueUserId, decoderRaises>>

\* create_company with company_id at line 55 guessed as the next id, not read
\* back from the committed Company
create_company_insert_member_guessed_id(r) ==
    /\ r.op = "create_company" /\ r.pc = "insert_member"
    /\ IF ViolatesUnique(r.user.email)
       THEN /\ ev' = Ev("create_company", "500", "integrity_error")
            /\ UNCHANGED members
       ELSE /\ BagCardinality(members) < MaxMembers
            /\ members' = members (+) NewMember(r.user.email, NextId(companies), ADMIN, "Founder")
            /\ ev' = Ev("create_company", "200", "")
    /\ req' = req (-) SetToBag({r})
    /\ UNCHANGED <<users, companies, tasks, taskMembers, sales, sessions, invites, now,
                   uniqueUserId, decoderRaises>>

create_company_insert_member(r) ==
    /\ r.op = "create_company" /\ r.pc = "insert_member"
    /\ IF ViolatesUnique(r.user.email)
       THEN /\ ev' = Ev("create_company", "500", "integrity_error")
            /\ UNCHANGED members
       ELSE /\ BagCardinality(members) < MaxMembers
            /\ members' = members (+) NewMember(r.user.email, r.cid, ADMIN, "Founder")
            /\ ev' = Ev("create_company", "200", "")
    /\ req' = req (-) SetToBag({r})
    /\ UNCHANGED <<users, companies, tasks, taskMembers, sales, sessions, invites, now,
                   uniqueUserId, decoderRaises>>

\* the second commit raises (connection lost, store error): nothing undoes the
\* first commit
create_company_commit_fails(r) ==
    /\ r.op = "create_company" /\ r.pc = "insert_member"
    /\ ev' = Ev("create_company", "500", "db_error")
    /\ req' = req (-) SetToBag({r})
    /\ UNCHANGED <<users, companies, members, tasks, taskMembers, sales, sessions, invites, now,
                   uniqueUserId, decoderRaises>>

-----------------------------------------------------------------------------
(* company_router: invitation issue *)

\* create_invitation_link with line 82 reduced to "if not member"
create_invitation_link_any_role(s) ==
    /\ \E m \in (IF MembershipsIn(s.email, s.company_id) = {} THEN {NoToken}
                 ELSE MembershipsIn(s.email, s.company_id)) :
         IF m = NoToken
         THEN /\ ev' = Ev("create_invitation_link", "403", "not_admin")
              /\ UNCHANGED invites
         ELSE LET tok == create_jwt_token(NoEmail, m.company_id, MEMBER, "Employee",
                                          InviteTTLHours) IN
              /\ tok \in invites \/ Cardinality(invites) < MaxInvites
              /\ invites' = invites \cup {tok}
              /\ ev' = Ev("create_invitation_link", "200", "")
    /\ UNCHANGED <<users, companies, members, tasks, taskMembers, sales, sessions, now, req,
                   uniqueUserId, decoderRaises>>

create_invitation_link(s) ==
    /\ \E m \in (IF MembershipsIn(s.email, s.company_id) = {} THEN {NoToken}
                 ELSE MembershipsIn(s.email, s.company_id)) :
         IF m = NoToken \/ m.role # ADMIN
         THEN /\ ev' = Ev("create_invitation_link", "403", "not_admin")
              /\ UNCHANGED invites
         ELSE LET tok == create_jwt_token(NoEmail, m.company_id, MEMBER, "Employee",
                                          InviteTTLHours) IN
              /\ tok \in invites \/ Cardinality(invites) < MaxInvites
              /\ invites' = invites \cup {tok}
              /\ ev' = Ev("create_invitation_link", "200", "")
    /\ UNCHANGED <<users, companies, members, tasks, taskMembers, sales, sessions, now, req,
                   uniqueUserId, decoderRaises>>

\* send_invitation_link with role ADMIN at line 260 of the payload
send_invitation_link_admin_role(s, email) ==
    /\ \E m \in (IF MembershipsIn(s.email, s.company_id) = {} THEN {NoToken}
                 ELSE MembershipsIn(s.email, s.company_id)) :
         IF m = NoToken \/ m.role # ADMIN
         THEN /\ ev' = Ev("send_invitation_link", "403", "not_admin")
              /\ UNCHANGED invites
         ELSE IF MembershipsOf(email) # {}
         THEN /\ ev' = Ev("send_invitation_link", "400", "already_member")
              /\ UNCHANGED invites
         ELSE LET tok == create_jwt_token(email, m.company_id, ADMIN, "Employee",
                                          InviteTTLHours) IN
              /\ tok \in invites \/ Cardinality(invites) < MaxInvites
              /\ invites' = invites \cup {tok}
              /\ ev' = Ev("send_invitation_link", "200", "")
    /\ UNCHANGED <<users, companies, members, tasks, taskMembers, sales, sessions, now, req,
                   uniqueUserId, decoderRaises>>

send_invitation_link(s, email) ==
    /\ \E m \in (IF MembershipsIn(s.email, s.company_id) = {} THEN {NoToken}
                 ELSE MembershipsIn(s.email, s.company_id)) :
         IF m = NoToken \/ m.role # ADMIN
         THEN /\ ev' = Ev("send_invitation_link", "403", "not_admin")
              /\ UNCHANGED invites
         ELSE IF MembershipsOf(email) # {}
         THEN /\ ev' = Ev("send_invitation_link", "400", "already_member")
              /\ UNCHANGED invites
         ELSE LET tok == create_jwt_token(email, m.company_id, MEMBER, "Employee",
                                          InviteTTLHours) IN
              /\ tok \in invites \/ Cardinality(invites) < MaxInvites
              /\ invites' = invites \cup {tok}
              /\ ev' = Ev("send_invitation_link", "200", "")
    /\ UNCHANGED <<users, companies, members, tasks, taskMembers, sales, sessions, now, req,
                   uniqueUserId, decoderRaises>>

-----------------------------------------------------------------------------
(* company_router: invitation redemption *)

join_company_via_invite_check(s, t) ==
    /\ BagCardinality(req) < MaxReq
    /\ IF MembershipsOf(s.email) # {}
       THEN /\ ev' = Ev("join_company_via_invite", "403", "already_member")
            /\ UNCHANGED req
       ELSE /\ req' = req (+) Request("join_company_via_invite", "decode", s, t)
            /\ ev' = Ev("join_company_via_invite", "pending", "checked")
    /\ UNCHANGED <<users, companies, members, tasks, taskMembers, sales, sessions, invites, now,
                   uniqueUserId, decoderRaises>>

\* join_company_via_invite with the commit of lines 141-142 wrapped in a
\* try/except that ignores the store's IntegrityError
join_company_via_invite_redeem_swallow(r) ==
    /\ r.op = "join_company_via_invite" /\ r.pc = "decode"
    /\ LET s == r.user
           t == r.token
       IN
         IF ~TokenValid(t)
         THEN /\ IF decoderRaises
                 THEN \E out \in {<<"500", "unhandled_exception">>,
                                  <<"401", "invalid_token">>} :
                        ev' = Ev("join_company_via_invite", out[1], out[2])
                 ELSE ev' = Ev("join_company_via_invite", "403", "invalid_token")
              /\ UNCHANGED members
         ELSE IF \A c \in companies : c.id # t.company_id
         THEN /\ ev' = Ev("join_company_via_invite", "404", "no_company")
              /\ UNCHANGED members
         ELSE IF ViolatesUnique(s.email)
         THEN /\ ev' = Ev("join_company_via_invite", "200", "")
              /\ UNCHANGED members
         ELSE /\ BagCardinality(members) < MaxMembers
              /\ members' = members (+) NewMember(s.email, t.company_id, t.role, t.position)
              /\ ev' = Ev("join_company_via_invite", "200", "")
    /\ req' = req (-) SetToBag({r})
    /\ UNCHANGED <<users, companies, tasks, taskMembers, sales, sessions, invites, now,
                   uniqueUserId, decoderRaises>>

join_company_via_invite_redeem(r) ==
    /\ r.op = "join_company_via_invite" /\ r.pc = "decode"
    /\ LET s == r.user
           t == r.token
       IN
         IF ~TokenValid(t)
         THEN /\ IF decoderRaises
                 THEN \* the decoder's exception leaves the handler uncaught
                      \E out \in {<<"500", "unhandled_exception">>,
                                  <<"401", "invalid_token">>} :
                        ev' = Ev("join_company_via_invite", out[1], out[2])
                 ELSE ev' = Ev("join_company_via_invite", "403", "invalid_token")
              /\ UNCHANGED members
         ELSE IF \A c \in companies : c.id # t.company_id
         THEN /\ ev' = Ev("join_company_via_invite", "404", "no_company")
              /\ UNCHANGED members
         ELSE IF ViolatesUnique(s.email)
         THEN /\ ev' = Ev("join_company_via_invite", "500", "integrity_error")
              /\ UNCHANGED members
         ELSE /\ BagCardinality(members) < MaxMembers
              /\ members' = members (+) NewMember(s.email, t.company_id, t.role, t.position)
              /\ ev' = Ev("join_company_via_invite", "200", "")
    /\ req' = req (-) SetToBag({r})
    /\ UNCHANGED <<users, companies, tasks, taskMembers, sales, sessions, invites, now,
                   uniqueUserId, decoderRaises>>

\* accept_invitation_link with the commit of lines 306-307 wrapped in a
\* try/except that ignores the store's IntegrityError
accept_invitation_link_swallow(t) ==
    /\ IF ~TokenValid(t)
       THEN /\ IF decoderRaises
               THEN ev' = Ev("accept_invitation_link", "400", "invalid_token")
               ELSE \* payload is None: payload.get raises AttributeError
                    ev' = Ev("accept_invitation_link", "500", "unhandled_exception")
            /\ UNCHANGED members
       ELSE IF ViolatesUnique(t.new_member_email)
       THEN /\ ev' = Ev("accept_invitation_link", "200", "")
            /\ UNCHANGED members
       ELSE \/ /\ BagCardinality(members) < MaxMembers
               /\ members' = members (+) NewMember(t.new_member_email, t.company_id, t.role, t.position)
               /\ ev' = Ev("accept_invitation_link", "200", "")
            \/ \* user_id = None refused by a NOT NULL column, or a user_id
               \* without a User row refused by an enforced foreign key
               /\ \A u \in users : u.email # t.new_member_email
               /\ ev' = Ev("accept_invitation_link", "500", "integrity_error")
               /\ UNCHANGED members
    /\ UNCHANGED <<users, companies, tasks, taskMembers, sales, sessions, invites, now, req,
                   uniqueUserId, decoderRaises>>

accept_invitation_link(t) ==
    /\ IF ~TokenValid(t)
       THEN /\ IF decoderRaises
               THEN ev' = Ev("accept_invitation_link", "400", "invalid_token")
               ELSE \* payload is None: payload.get raises AttributeError
                    ev' = Ev("accept_invitation_link", "500", "unhandled_exception")
            /\ UNCHANGED members
       ELSE IF ViolatesUnique(t.new_member_email)
       THEN /\ ev' = Ev("accept_invitation_link", "500", "integrity_error")
            /\ UNCHANGED members
       ELSE \/ /\ BagCardinality(members) < MaxMembers
               /\ members' = members (+) NewMember(t.new_member_email, t.company_id, t.role, t.position)
               /\ ev' = Ev("accept_invitation_link", "200", "")
            \/ \* user_id = None refused by a NOT NULL column, or a user_id
               \* without a User row refused by an enforced foreign key
               /\ \A u \in users : u.email # t.new_member_email
               /\ ev' = Ev("accept_invitation_link", "500", "integrity_error")
               /\ UNCHANGED members
    /\ UNCHANGED <<users, companies, tasks, taskMembers, sales, sessions, invites, now, req,
                   uniqueUserId, decoderRaises>>

-----------------------------------------------------------------------------
(* company_router: read_company, update_company, list_company_members *)

\* company_services.get_company_by_id(session, user): the company of the token
CompanyOfToken(s) == {c \in companies : c.id = s.company_id}

read_company(s) ==
    /\ IF MembershipsOf(s.email) = {}
       THEN ev' = Ev("read_company", "403", "not_associated")
       ELSE IF CompanyOfToken(s) = {}
       THEN ev' = Ev("read_company", "404", "no_company")
       ELSE ev' = Ev("read_company", "200", "")
    /\ UNCHANGED <<users, companies, members, tasks, taskMembers, sales, sessions, invites, now,
                   req, uniqueUserId, decoderRaises>>

\* company_services.update_company_by_id(session, update_data, user)
update_company_by_id(s, name) ==
    {IF c.id = s.company_id THEN [c EXCEPT !.name = name] ELSE c : c \in companies}

update_company(s, name) ==
    /\ IF MembershipsOf(s.email) = {}
       THEN /\ ev' = Ev("update_company", "403", "not_associated")
            /\ UNCHANGED companies
       ELSE IF CompanyOfToken(s) = {}
       THEN /\ ev' = Ev("update_company", "404", "no_company")
            /\ UNCHANGED companies
       ELSE /\ companies' = update_company_by_id(s, name)
            /\ ev' = Ev("update_company", "200", "")
    /\ UNCHANGED <<users, members, tasks, taskMembers, sales, sessions, invites, now, req,
                   uniqueUserId, decoderRaises>>

list_company_members(s) ==
    /\ IF s.company_id = NoCompany
       THEN ev' = Ev("list_company_members", "403", "not_associated")
       ELSE ev' = Ev("list_company_members", "200", "")
    /\ UNCHANGED <<users, companies, members, tasks, taskMembers, sales, sessions, invites, now,
                   req, uniqueUserId, decoderRaises>>

-----------------------------------------------------------------------------
(* task_router *)

TaskIds == 1..MaxTasks

\* the lowest task id not in use
NextTaskId ==
    CHOOSE i \in 1..(Cardinality(tasks) + 1) :
        /\ \A t \in tasks : t.id # i
        /\ \A j \in 1..(i - 1) : \E t \in tasks : t.id = j

\* User.id values a task member may be named by
TaskUserIds == 1..MaxTaskUsers

\* the guard reading the caller's current CompanyMember row, not the token
TaskAdminGuard_by_row(s) == \E m \in MembershipsOf(s.email) : m.role = "Admin"

\* if user.role != "Admin": raise 403
TaskAdminGuard(s) == s.role = "Admin"

\* task_services.update_task_status(task_id, status, session)
update_task_status(tid, st) ==
    {IF t.id = tid THEN [t EXCEPT !.status = st] ELSE t : t \in tasks}

create_new_task(s) ==
    /\ IF ~TaskAdminGuard(s)
       THEN /\ ev' = Ev("create_new_task", "403", "not_admin")
            /\ UNCHANGED tasks
       ELSE IF \A u \in users : u.email # s.email
       THEN /\ ev' = Ev("create_new_task", "404", "no_user")
            /\ UNCHANGED tasks
       ELSE /\ Cardinality(tasks) < MaxTasks
            /\ tasks' = tasks \cup {[id |-> NextTaskId, status |-> "todo"]}
            /\ ev' = Ev("create_new_task", "201", "")
    /\ UNCHANGED <<taskMembers, users, companies, members, sales, sessions, invites, now, req,
                   uniqueUserId, decoderRaises>>

read_task_by_task_id(s, tid) ==
    /\ IF \A t \in tasks : t.id # tid
       THEN ev' = Ev("read_task_by_task_id", "404", "no_task")
       ELSE ev' = Ev("read_task_by_task_id", "200", "")
    /\ UNCHANGED <<users, companies, members, tasks, taskMembers, sales, sessions, invites, now,
                   req, uniqueUserId, decoderRaises>>

change_task_status(s, tid, st) ==
    /\ IF \A t \in tasks : t.id # tid
       THEN \* the parameter named status hides fastapi's status module:
            \* status.HTTP_404_NOT_FOUND raises AttributeError
            /\ ev' = Ev("change_task_status", "500", "unhandled_exception")
            /\ UNCHANGED tasks
       ELSE /\ tasks' = update_task_status(tid, st)
            /\ ev' = Ev("change_task_status", "200", "")
    /\ UNCHANGED <<taskMembers, users, companies, members, sales, sessions, invites, now, req,
                   uniqueUserId, decoderRaises>>

update_existing_task(s, tid, st) ==
    /\ IF ~TaskAdminGuard(s)
       THEN /\ ev' = Ev("update_existing_task", "403", "not_admin")
            /\ UNCHANGED tasks
       ELSE /\ tasks' = update_task_status(tid, st)
            /\ ev' = Ev("update_existing_task", "200", "")
    /\ UNCHANGED <<taskMembers, users, companies, members, sales, sessions, invites, now, req,
                   uniqueUserId, decoderRaises>>

delete_existing_task(s, tid) ==
    /\ IF ~TaskAdminGuard(s)
       THEN /\ ev' = Ev("delete_existing_task", "403", "not_admin")
            /\ UNCHANGED tasks
       ELSE IF \A t \in tasks : t.id # tid
       THEN /\ ev' = Ev("delete_existing_task", "404", "no_task")
            /\ UNCHANGED tasks
       ELSE /\ tasks' = {t \in tasks : t.id # tid}
            /\ ev' = Ev("delete_existing_task", "204", "")
    /\ UNCHANGED <<users, companies, members, taskMembers, sales, sessions, invites,
                   now, req, uniqueUserId, decoderRaises>>

\* add_member without the role guard of lines 134-135
add_member_unguarded(s, tid, uid) ==
    /\ IF \A t \in tasks : t.id # tid
       THEN /\ ev' = Ev("add_member", "404", "no_task")
            /\ UNCHANGED taskMembers
       ELSE /\ taskMembers' = taskMembers \cup {[task_id |-> tid, user_id |-> uid]}
            /\ ev' = Ev("add_member", "200", "")
    /\ UNCHANGED <<users, companies, members, tasks, sales, sessions, invites, now,
                   req, uniqueUserId, decoderRaises>>

add_member(s, tid, uid) ==
    /\ IF ~TaskAdminGuard(s)
       THEN /\ ev' = Ev("add_member", "403", "not_admin")
            /\ UNCHANGED taskMembers
       ELSE IF \A t \in tasks : t.id # tid
       THEN /\ ev' = Ev("add_member", "404", "no_task")
            /\ UNCHANGED taskMembers
       ELSE /\ taskMembers' = taskMembers \cup {[task_id |-> tid, user_id |-> uid]}
            /\ ev' = Ev("add_member", "200", "")
    /\ UNCHANGED <<users, companies, members, tasks, sales, sessions, invites, now,
                   req, uniqueUserId, decoderRaises>>

remove_member(s, tid, uid) ==
    /\ IF ~TaskAdminGuard(s)
       THEN /\ ev' = Ev("remove_member", "403", "not_admin")
            /\ UNCHANGED taskMembers
       ELSE IF [task_id |-> tid, user_id |-> uid] \notin taskMembers
       THEN /\ ev' = Ev("remove_member", "404", "no_task_member")
            /\ UNCHANGED taskMembers
       ELSE /\ taskMembers' = taskMembers \ {[task_id |-> tid, user_id |-> uid]}
            /\ ev' = Ev("remove_member", "200", "")
    /\ UNCHANGED <<users, companies, members, tasks, sales, sessions, invites, now,
                   req, uniqueUserId, decoderRaises>>

-----------------------------------------------------------------------------
(* sales_router *)

\* str.lower() on the role names in use
Lower(role) == IF role = "Admin" THEN "admin" ELSE IF role = "Member" THEN "member" ELSE role

\* admin_required without the comparison of line 14: any role passes
admin_required_any_role(s) ==
    IF s.role = NoRole THEN "500"
    ELSE "ok"

\* admin_required: "ok", "403", or "500" when user.role is None
\* (None has no attribute lower)
admin_required(s) ==
    IF s.role = NoRole THEN "500"
    ELSE IF Lower(s.role) # "admin" THEN "403"
    ELSE "ok"

GuardEv(op, s) ==
    IF admin_required(s) = "500" THEN Ev(op, "500", "unhandled_exception")
    ELSE Ev(op, "403", "admins_only")

create_sales(s) ==
    /\ IF admin_required(s) # "ok"
       THEN /\ ev' = GuardEv("create_sales", s)
            /\ UNCHANGED sales
       ELSE /\ Cardinality(sales) < MaxSales
            /\ sales' = sales \cup {[id |-> NextId(sales), company_id |-> s.company_id,
                                     status |-> "open"]}
            /\ ev' = Ev("create_sales", "201", "")
    /\ UNCHANGED <<users, companies, members, tasks, taskMembers, sessions, invites, now, req,
                   uniqueUserId, decoderRaises>>

update_sales(s, sid, st) ==
    /\ IF admin_required(s) # "ok"
       THEN /\ ev' = GuardEv("update_sales", s)
            /\ UNCHANGED sales
       ELSE IF \A x \in sales : x.id # sid \/ x.company_id # s.company_id
       THEN /\ ev' = Ev("update_sales", "404", "no_sale")
            /\ UNCHANGED sales
       ELSE /\ sales' = {IF x.id = sid /\ x.company_id = s.company_id
                         THEN [x EXCEPT !.status = st] ELSE x : x \in sales}
            /\ ev' = Ev("update_sales", "200", "")
    /\ UNCHANGED <<users, companies, members, tasks, taskMembers, sessions, invites,
                   now, req, uniqueUserId, decoderRaises>>

read_all_sales(s) ==
    /\ IF admin_required(s) # "ok"
       THEN ev' = GuardEv("read_all_sales", s)
       ELSE ev' = Ev("read_all_sales", "200", "")
    /\ UNCHANGED <<users, companies, members, tasks, taskMembers, sales, sessions, invites, now,
                   req, uniqueUserId, decoderRaises>>

read_sale(s, sid) ==
    /\ IF admin_required(s) # "ok"
       THEN ev' = GuardEv("read_sale", s)
       ELSE IF \A x \in sales : x.id # sid \/ x.company_id # s.company_id
       THEN ev' = Ev("read_sale", "404", "no_sale")
       ELSE ev' = Ev("read_sale", "200", "")
    /\ UNCHANGED <<users, companies, members, tasks, taskMembers, sales, sessions, invites, now,
                   req, uniqueUserId, decoderRaises>>

change_sales_status(s, sid, st) ==
    /\ IF admin_required(s) # "ok"
       THEN /\ ev' = GuardEv("change_sales_status", s)
            /\ UNCHANGED sales
       ELSE IF \A x \in sales : x.id # sid \/ x.company_id # s.company_id
       THEN \* status is the str body parameter: status.HTTP_404_NOT_FOUND raises
            /\ ev' = Ev("change_sales_status", "500", "unhandled_exception")
            /\ UNCHANGED sales
       ELSE /\ sales' = {IF x.id = sid /\ x.company_id = s.company_id
                         THEN [x EXCEPT !.status = st] ELSE x : x \in sales}
            /\ ev' = Ev("change_sales_status", "200", "")
    /\ UNCHANGED <<users, companies, members, tasks, taskMembers, sessions, invites, now, req,
                   uniqueUserId, decoderRaises>>

-----------------------------------------------------------------------------
Tick ==
    /\ now + TickHours <= MaxTicks * TickHours
    /\ now' = now + TickHours
    /\ ev' = Ev("tick", "", "")
    /\ UNCHANGED <<users, companies, members, tasks, taskMembers, sales, sessions, invites, req,
                   uniqueUserId, decoderRaises>>

\* the membership workflow: sign-up, sign-in, company creation, invitations
NextMembership ==
    \/ \E e \in Emails, pw \in Passwords : create_user(e, pw)
    \/ \E e \in Emails, pw \in Passwords \cup {"bad"} : authenticate_user(e, pw)
    \/ \E s \in Callers : create_company_check(s)
    \/ \E r \in BagToSet(req) : create_company_insert_company(r)
    \/ \E r \in BagToSet(req) : create_company_insert_member(r)
    \/ \E r \in BagToSet(req) : create_company_commit_fails(r)
    \/ \E s \in Callers : create_invitation_link(s)
    \/ \E s \in Callers, e \in Addresses : send_invitation_link(s, e)
    \/ \E s \in Callers, t \in invites \cup ForgedTokens :
          join_company_via_invite_check(s, t)
    \/ \E r \in BagToSet(req) : join_company_via_invite_redeem(r)
    \/ \E t \in invites \cup ForgedTokens : accept_invitation_link(t)
    \/ Tick

\* the role-gated endpoints, with the requests that give their callers a role
NextAccess ==
    \/ \E e \in Emails, pw \in Passwords : create_user(e, pw)
    \/ \E e \in Emails, pw \in Passwords : authenticate_user(e, pw)
    \/ \E s \in Callers : create_company_check(s)
    \/ \E r \in BagToSet(req) : create_company_insert_company(r)
    \/ \E r \in BagToSet(req) : create_company_insert_member(r)
    \/ \E s \in Callers : create_invitation_link(s)
    \/ \E s \in Callers, t \in invites : join_company_via_invite_check(s, t)
    \/ \E r \in BagToSet(req) : join_company_via_invite_redeem(r)
    \/ \E s \in Callers : read_company(s)
    \/ \E s \in Callers : update_company(s, "acme2")
    \/ \E s \in Callers : list_company_members(s)
    \/ \E s \in Callers : create_new_task(s)
    \/ \E s \in Callers, tid \in TaskIds : read_task_by_task_id(s, tid)
    \/ \E s \in Callers, tid \in TaskIds, st \in KanbanStatus :
          change_task_status(s, tid, st)
    \/ \E s \in Callers, tid \in TaskIds, st \in KanbanStatus :
          update_existing_task(s, tid, st)
    \/ \E s \in Callers : create_sales(s)
    \/ \E s \in Callers : read_all_sales(s)
    \/ \E s \in Callers, sid \in 1..MaxSales : read_sale(s, sid)
    \/ \E s \in Callers, sid \in 1..MaxSales : change_sales_status(s, sid, "void")

Next == NextMembership \/ NextAccess

Spec == Init /\ [][Next]_vars

SpecMembership == Init /\ [][NextMembership]_vars

SpecAccess == Init /\ [][NextAccess]_vars

\* one request at a time: a request starts only after the previous one returned
SpecSequential == Init /\ [][NextMembership /\ BagCardinality(req') <= 1]_vars

\* create_company and join_company_via_invite in flight together: the only
\* requests here that insert CompanyMember rows are the two that check first
NextRace ==
    \/ \E e \in Emails, pw \in Passwords : create_user(e, pw)
    \/ \E e \in Emails, pw \in Passwords : authenticate_user(e, pw)
    \/ \E s \in Callers : create_company_check(s)
    \/ \E r \in BagToSet(req) : create_company_insert_company(r)
    \/ \E r \in BagToSet(req) : create_company_insert_member(r)
    \/ \E s \in Callers : create_invitation_link(s)
    \/ \E s \in Callers, t \in invites : join_company_via_invite_check(s, t)
    \/ \E r \in BagToSet(req) : join_company_via_invite_redeem(r)

SpecRace == Init /\ [][NextRace]_vars

\* the Admin-guarded task mutations and the sales endpoints, with the
\* requests that give their callers a role
NextGuards ==
    \/ \E e \in Emails, pw \in Passwords : create_user(e, pw)
    \/ \E e \in Emails, pw \in Passwords : authenticate_user(e, pw)
    \/ \E s \in Callers : create_company_check(s)
    \/ \E r \in BagToSet(req) : create_company_insert_company(r)
    \/ \E r \in BagToSet(req) : create_company_insert_member(r)
    \/ \E s \in Callers : create_invitation_link(s)
    \/ \E s \in Callers, t \in invites : join_company_via_invite_check(s, t)
    \/ \E r \in BagToSet(req) : join_company_via_invite_redeem(r)
    \/ \E s \in Callers : create_new_task(s)
    \/ \E s \in Callers, tid \in TaskIds : delete_existing_task(s, tid)
    \/ \E s \in Callers, tid \in TaskIds, uid \in TaskUserIds : add_member(s, tid, uid)
    \/ \E s \in Callers, tid \in TaskIds, uid \in TaskUserIds :
          remove_member(s, tid, uid)
    \/ \E s \in Callers, tid \in TaskIds, st \in KanbanStatus :
          update_existing_task(s, tid, st)
    \/ \E s \in Callers : create_sales(s)
    \/ \E s \in Callers, sid \in 1..MaxSales : update_sales(s, sid, "paid")
    \/ \E s \in Callers : read_all_sales(s)
    \/ \E s \in Callers, sid \in 1..MaxSales : change_sales_status(s, sid, "void")
    \/ \E s \in Callers, sid \in 1..MaxSales : read_sale(s, sid)

SpecGuards == Init /\ [][NextGuards]_vars

\* sign-up requests in flight together, several passwords per email
NextUsers ==
    \/ \E e \in Emails, pw \in Passwords \cup {"pw2"} : create_user_check(e, pw)
    \/ \E r \in BagToSet(req) : create_user_insert(r)
    \/ \E e \in Emails, pw \in Passwords \cup {"pw2"} : authenticate_user(e, pw)

SpecUsers == Init /\ [][NextUsers]_vars

-----------------------------------------------------------------------------
(* Properties *)

\* number of CompanyMember rows with this user_id
RowCount(user_id) ==
    BagCardinality([m \in MembershipsOf(user_id) |-> members[m]])

\* the row a redemption of token t by identity e inserts
RowOf(e, t) ==
    [user_id |-> e, company_id |-> t.company_id, role |-> t.role,
     position |-> t.position]

Redeemed(e, t) == BagIn(RowOf(e, t), members)

HasAdminRow(s) ==
    \E m \in BagToSet(members) :
        m.user_id = s.email /\ m.company_id = s.company_id /\ m.role = ADMIN

\* a caller without any CompanyMember row, holding the token such a caller gets
NonMember(s) ==
    s.company_id = NoCompany /\ s.role = NoRole /\ MembershipsOf(s.email) = {}

\* C1: every user_id appears in at most one CompanyMember row, in every
\* reachable state.
C1_SingleMembership ==
    \A e \in Addresses : RowCount(e) <= 1

\* C2: no reachable state has a Company row without its founding CompanyMember
\* row (creator, Admin, Founder).
C2_NoCompanyWithoutFounder ==
    \A c \in companies :
        BagIn([user_id |-> c.user_id, company_id |-> c.id, role |-> ADMIN,
               position |-> "Founder"], members)

\* C3: the first redemption of a valid token adds exactly one row and succeeds;
\* redeeming the same token again for the same identity is answered with a
\* failure and adds no row; on both redemption endpoints.
C3_SecondRedemptionFails ==
    [][ /\ \A t \in invites :
             (accept_invitation_link(t) /\ TokenValid(t)
                /\ t.new_member_email # NoEmail) =>
                IF Redeemed(t.new_member_email, t)
                THEN ev'.status # "200" /\ members' = members
                ELSE MembershipsOf(t.new_member_email) = {} =>
                        /\ ev'.status = "200"
                        /\ members' = members (+)
                                SetToBag({RowOf(t.new_member_email, t)})
        /\ \A s \in Callers, t \in invites :
             (join_company_via_invite_check(s, t) /\ TokenValid(t)
                /\ Redeemed(s.email, t)) =>
                ev'.status \in {"403", "409"} /\ members' = members
        /\ \A r \in BagToSet(req) :
             (join_company_via_invite_redeem(r) /\ TokenValid(r.token)
                /\ MembershipsOf(r.user.email) = {}) =>
                /\ ev'.status = "200"
                /\ members' = members (+) SetToBag({RowOf(r.user.email, r.token)})
      ]_vars

\* C4: a targeted token never gives a row to an identity other than its target
\* e-mail: such a redemption fails and inserts nothing, on both endpoints.
C4_TargetedTokenOnlyForTarget ==
    [][ /\ \A r \in BagToSet(req) :
             (join_company_via_invite_redeem(r)
                /\ r.token.new_member_email \notin {NoEmail, r.user.email}) =>
                ev'.status # "200" /\ members' = members
        /\ \A t \in invites \cup ForgedTokens :
             (accept_invitation_link(t) /\ t.new_member_email # NoEmail) =>
                \A m \in BagToSet(members') :
                    CopiesIn(m, members') > CopiesIn(m, members) =>
                        m.user_id = t.new_member_email
      ]_vars

\* C5: change_task_status by a Member is answered 403 and leaves the task
\* unchanged; by an Admin on an existing task it sets the status and answers 200.
C5_ChangeTaskStatusAdminOnly ==
    [][ \A s \in Callers, tid \in TaskIds, st \in KanbanStatus :
          change_task_status(s, tid, st) =>
            /\ (s.role = MEMBER /\ \E t \in tasks : t.id = tid) =>
                  (ev'.status = "403" /\ tasks' = tasks)
            /\ (s.role = ADMIN /\ \E t \in tasks : t.id = tid) =>
                  /\ ev'.status = "200"
                  /\ \E t \in tasks' : t.id = tid /\ t.status = st
      ]_vars

\* C6: create_company by a user who already holds a CompanyMember row is
\* answered 403 and leaves Company and CompanyMember unchanged.
C6_CreateCompanyRejectsMember ==
    [][ \A s \in Callers :
          (create_company_check(s) /\ MembershipsOf(s.email) # {}) =>
            /\ ev'.status = "403"
            /\ companies' = companies
            /\ members' = members
            /\ req' = req
      ]_vars

C6_Witness ==
    /\ ev = Ev("create_company", "403", "already_member")
    /\ \E s \in Callers : MembershipsOf(s.email) # {}

\* C7: an expired or unsigned invitation token always ends redemption in the
\* invalid-token error response, with no row inserted, on both endpoints and
\* for both ways the decoder can signal failure.
C7_BadTokenInvalidTokenResponse ==
    [][ /\ \A t \in invites \cup ForgedTokens :
             (accept_invitation_link(t) /\ ~TokenValid(t)) =>
                ev'.detail = "invalid_token" /\ members' = members
        /\ \A r \in BagToSet(req) :
             (join_company_via_invite_redeem(r) /\ ~TokenValid(r.token)) =>
                ev'.detail = "invalid_token" /\ members' = members
      ]_vars

\* C8: a caller with no CompanyMember row (token company_id and role null) is
\* answered 403 on every company-scoped operation, never success and never an
\* unhandled failure.
C8_NonMemberAlwaysDenied ==
    [][ \A s \in Callers :
          (/\ NonMember(s)
           /\ \/ create_sales(s) \/ read_all_sales(s)
              \/ \E sid \in 1..MaxSales : read_sale(s, sid)
              \/ \E sid \in 1..MaxSales : change_sales_status(s, sid, "void")
              \/ create_new_task(s)
              \/ \E tid \in TaskIds, st \in KanbanStatus :
                    change_task_status(s, tid, st)
              \/ \E tid \in TaskIds, st \in KanbanStatus :
                    update_existing_task(s, tid, st)
              \/ list_company_members(s) \/ read_company(s)
              \/ update_company(s, "acme2")
              \/ create_invitation_link(s)) =>
            ev'.status = "403"
      ]_vars

\* C9: no two Company rows have the same owning user_id, also after a
\* create_company that failed between its two commits and was retried.
C9_OneCompanyPerOwner ==
    \A c1, c2 \in companies : c1.user_id = c2.user_id => c1 = c2

\* C10: an invitation token is produced only for a caller with an Admin row in
\* the company of the session, and carries that company, role Member and
\* position Employee.
C10_IssueAdminOnlyGrantsMember ==
    [][ /\ \A t \in invites' \ invites :
             /\ t.signed /\ t.role = MEMBER /\ t.position = "Employee"
             /\ \E s \in Callers : HasAdminRow(s) /\ t.company_id = s.company_id
        /\ \A s \in Callers :
             ((create_invitation_link(s)
                 \/ \E e \in Addresses : send_invitation_link(s, e))
              /\ ~HasAdminRow(s)) =>
                ev'.status = "403" /\ invites' = invites
      ]_vars

C10_Witness ==
    /\ ev = Ev("send_invitation_link", "200", "")
    /\ \E t \in invites : t.new_member_email = "u3" /\ t.role = MEMBER

\* the caller's CompanyMember rows all have role Member
IsMemberOnly(s) ==
    /\ MembershipsOf(s.email) # {}
    /\ \A m \in MembershipsOf(s.email) : m.role = MEMBER

\* C11: update_company changes a Company row only for a caller who is Admin of
\* that company; a caller whose membership role is Member is answered 403 and
\* the Company rows stay as they were.
C11_UpdateCompanyAdminOnly ==
    [][ \A s \in Callers :
          update_company(s, "acme2") =>
            /\ \A c \in companies :
                 c \notin companies' =>
                    \E m \in MembershipsOf(s.email) :
                        m.company_id = c.id /\ m.role = ADMIN
            /\ (IsMemberOnly(s) /\ MembershipsIn(s.email, s.company_id) # {}) =>
                  (ev'.status = "403" /\ companies' = companies)
      ]_vars

\* the stored credentials match: a User row with this email whose password
\* hash verifies against pw
CredentialsOk(email, pw) ==
    \E u \in users : u.email = email /\ u.password = Hash(pw)

\* C12: authenticate_user issues a session token exactly when a User row with
\* the email exists and the password verifies; an unknown email and a wrong
\* password give the same 401 response and no token; a token issued carries
\* the email and the company_id and role of a CompanyMember row the user holds
\* at that moment, or null company_id and role when the user holds none.
C12_AuthenticateIffCredentials ==
    [][ \A e \in Emails : \A pw \in Passwords \cup {"bad"} :
          authenticate_user(e, pw) =>
            IF CredentialsOk(e, pw)
            THEN /\ ev' = Ev("authenticate_user", "200", "")
                 /\ sessions'[e].email = e
                 /\ IF MembershipsOf(e) = {}
                    THEN /\ sessions'[e].company_id = NoCompany
                         /\ sessions'[e].role = NoRole
                    ELSE \E m \in MembershipsOf(e) :
                            /\ sessions'[e].company_id = m.company_id
                            /\ sessions'[e].role = m.role
                 /\ \A o \in Emails \ {e} : sessions'[o] = sessions[o]
            ELSE /\ ev' = Ev("authenticate_user", "401", "invalid_credentials")
                 /\ sessions' = sessions
      ]_vars

C12_Witness ==
    /\ ev = Ev("authenticate_user", "401", "invalid_credentials")
    /\ \E e \in Emails :
          /\ \E u \in users : u.email = e
          /\ sessions[e] # NoSession
          /\ sessions[e].role = ADMIN
    /\ \E e \in Emails : \A u \in users : u.email # e

\* a session token issued while its user held no CompanyMember row, held by
\* a user who holds one now
Stale(s) ==
    /\ s.company_id = NoCompany
    /\ s.role = NoRole
    /\ MembershipsOf(s.email) # {}

\* C13: a session token is a snapshot.  No request but authenticate_user
\* changes the token a client holds, so after a user without membership signs
\* in and then creates a company or redeems an invitation, the token still has
\* null company_id and role, and every guard that reads the token (the task
\* and sales Admin guards, list_company_members, the company_id filter of
\* invitation issue) answers it as it answers a non-member: no success, no
\* row changed.
C13_TokenIsSnapshot ==
    [][ /\ \A e \in Emails :
             sessions'[e] # sessions[e] => ev'.op = "authenticate_user"
        /\ \A s \in Callers :
             Stale(s) =>
               /\ create_new_task(s) =>
                    (ev' = Ev("create_new_task", "403", "not_admin") /\ tasks' = tasks)
               /\ \A tid \in TaskIds, st \in KanbanStatus :
                    update_existing_task(s, tid, st) =>
                      (ev' = Ev("update_existing_task", "403", "not_admin")
                         /\ tasks' = tasks)
               /\ list_company_members(s) =>
                    ev' = Ev("list_company_members", "403", "not_associated")
               /\ create_invitation_link(s) =>
                    (ev' = Ev("create_invitation_link", "403", "not_admin")
                       /\ invites' = invites)
               /\ (\/ create_sales(s)
                   \/ read_all_sales(s)
                   \/ \E sid \in 1..MaxSales : read_sale(s, sid)
                   \/ \E sid \in 1..MaxSales : change_sales_status(s, sid, "void")) =>
                    (ev'.status \in {"403", "500"} /\ sales' = sales)
      ]_vars

C13_Witness ==
    /\ ev = Ev("create_new_task", "403", "not_admin")
    /\ \E s \in Callers :
          /\ Stale(s)
          /\ \E m \in MembershipsOf(s.email) : m.role = ADMIN

\* C14: a caller whose role is Member may read: view a task, list the members
\* of their company, view a sale and the sales list; no read is refused for
\* want of the Admin role.
C14_ReadsNeedMembershipOnly ==
    [][ \A s \in Callers :
          s.role = MEMBER =>
            /\ \A tid \in TaskIds :
                 (read_task_by_task_id(s, tid) /\ \E t \in tasks : t.id = tid) =>
                    ev'.status = "200"
            /\ list_company_members(s) => ev'.status = "200"
            /\ read_all_sales(s) => ev'.status = "200"
            /\ \A sid \in 1..MaxSales : read_sale(s, sid) => ev'.status # "403"
      ]_vars

\* C14 amended: a caller whose role is Member may view a task and list the
\* members of their company; both sales reads are Admin-only and answer the
\* Member 403 "Admins only".
C14_MemberReadsExceptSales ==
    [][ \A s \in Callers :
          s.role = MEMBER =>
            /\ \A tid \in TaskIds :
                 (read_task_by_task_id(s, tid) /\ \E t \in tasks : t.id = tid) =>
                    ev'.status = "200"
            /\ list_company_members(s) => ev'.status = "200"
            /\ read_all_sales(s) => ev' = Ev("read_all_sales", "403", "admins_only")
            /\ \A sid \in 1..MaxSales :
                 read_sale(s, sid) => ev' = Ev("read_sale", "403", "admins_only")
      ]_vars

C14_Witness ==
    /\ ev = Ev("read_sale", "403", "admins_only")
    /\ sales # {}
    /\ tasks # {}
    /\ \E s \in Callers : s.role = MEMBER /\ MembershipsIn(s.email, s.company_id) # {}

\* the request has passed its check and its insert is not refused for the
\* token or the company
Insertable(r) ==
    \/ r.op = "create_company"
    \/ /\ r.op = "join_company_via_invite"
       /\ TokenValid(r.token)
       /\ \E c \in companies : c.id = r.token.company_id

\* the step that commits the CompanyMember row of request r
InsertStep(r) ==
    create_company_insert_member(r) \/ join_company_via_invite_redeem(r)

\* C15: create_company and join_company_via_invite check first and insert
\* later.  A request that passed its check while its user had no row, and
\* inserts after a concurrent request of the same user has inserted, succeeds
\* when the store has no uniqueness constraint on user_id, leaving the user
\* with two rows; with the constraint it fails, its row is not added, and no
\* user ever has two rows.
C15_CheckThenInsertRace ==
    [][ /\ uniqueUserId => \A e \in Emails : RowCount(e)' <= 1
        /\ \A r \in BagToSet(req) :
             (InsertStep(r) /\ Insertable(r)) =>
                IF MembershipsOf(r.user.email) = {}
                THEN /\ ev'.status = "200"
                     /\ RowCount(r.user.email)' = 1
                ELSE IF uniqueUserId
                THEN /\ ev'.status = "500"
                     /\ members' = members
                ELSE /\ ev'.status = "200"
                     /\ RowCount(r.user.email)' = RowCount(r.user.email) + 1
      ]_vars

C15_Witness ==
    /\ ~uniqueUserId
    /\ \E e \in Emails :
          /\ RowCount(e) = 2
          /\ \E m \in MembershipsOf(e) : m.role = ADMIN
          /\ \E m \in MembershipsOf(e) : m.role = MEMBER

\* the step added exactly one CompanyMember row and answered success, or
\* answered an error and left the CompanyMember rows as they were
AllOrNothing ==
    \/ /\ ev'.status = "200"
       /\ \E m \in BagToSet(members') : members' = members (+) SetToBag({m})
    \/ /\ ev'.status \notin {"200", "pending"}
       /\ members' = members

GuardedTaskMutation(s) ==
    \/ create_new_task(s)
    \/ \E tid \in TaskIds : delete_existing_task(s, tid)
    \/ \E tid \in TaskIds, uid \in TaskUserIds : add_member(s, tid, uid)
    \/ \E tid \in TaskIds, uid \in TaskUserIds : remove_member(s, tid, uid)
    \/ \E tid \in TaskIds, st \in KanbanStatus : update_existing_task(s, tid, st)

\* a call of one of the sales endpoints by caller s
SalesEndpoint(s) ==
    \/ create_sales(s)
    \/ \E sid \in 1..MaxSales : update_sales(s, sid, "paid")
    \/ read_all_sales(s)
    \/ \E sid \in 1..MaxSales : change_sales_status(s, sid, "void")
    \/ \E sid \in 1..MaxSales : read_sale(s, sid)

\* C17: create_new_task, delete_existing_task, add_member, remove_member,
\* update_existing_task and every sales endpoint answer a caller whose session
\* role is Member with 403 and change no Task, TaskMember or Sale row.
C17_MemberForbiddenOnGuarded ==
    [][ \A s \in Callers :
          (s.role = MEMBER /\ (GuardedTaskMutation(s) \/ SalesEndpoint(s))) =>
             /\ ev'.status = "403"
             /\ tasks' = tasks
             /\ taskMembers' = taskMembers
             /\ sales' = sales
      ]_vars

C17_Witness ==
    /\ ev = Ev("add_member", "403", "not_admin")
    /\ tasks # {}
    /\ taskMembers # {}
    /\ sales # {}
    /\ \E s \in Callers : s.role = MEMBER

\* C18: user emails stay unique.  create_user for an email that already has a
\* User row is answered 400 and adds no row, and after any interleaving of
\* create_user requests no two User rows share an email.
C18_UserEmailsUnique ==
    [][ /\ \A e \in Emails, pw \in Passwords \cup {"pw2"} :
             (create_user_check(e, pw) /\ \E u \in users : u.email = e) =>
                /\ ev' = Ev("create_user", "400", "email_exists")
                /\ users' = users
                /\ req' = req
        /\ \A r \in BagToSet(req) :
             (create_user_insert(r) /\ \E u \in users : u.email = r.user.email) =>
                /\ ev'.status \notin {"200", "pending"}
                /\ users' = users
        /\ \A u, v \in users' : u.email = v.email => u = v
      ]_vars

C18_Witness ==
    /\ ev = Ev("create_user", "500", "integrity_error")
    /\ \E u \in users : u.email = "u1" /\ u.password = Hash("pw2")
    /\ \E e \in Emails : sessions[e] # NoSession

\* the CompanyMember rows the step has added
AddedRows ==
    {m \in BagToSet(members') : CopiesIn(m, members') > CopiesIn(m, members)}

\* every Admin row is the Founder row of the owner of the company it names
AdminRowsAreFounders ==
    \A m \in BagToSet(members) :
        m.role = ADMIN =>
           /\ m.position = "Founder"
           /\ \E c \in companies : c.id = m.company_id /\ c.user_id = m.user_id

\* C19: invitations never create Admins.  Every Admin row was inserted by
\* create_company, so it names the owner of the Company it points to and has
\* position Founder, and every row a redemption endpoint inserts has role
\* Member.
C19_InvitationsNeverCreateAdmins ==
    [][ /\ AdminRowsAreFounders'
        /\ \A m \in AddedRows :
              m.role = ADMIN <=> ev'.op = "create_company"
        /\ \A m \in AddedRows :
              ev'.op \in {"join_company_via_invite", "accept_invitation_link"} =>
                 m.role = MEMBER
      ]_vars

C19_Witness ==
    /\ ev = Ev("accept_invitation_link", "200", "")
    /\ \E m \in BagToSet(members) : m.role = ADMIN
    /\ \E m \in BagToSet(members) : m.role = MEMBER /\ m.user_id = "u3"
    /\ \E m \in BagToSet(members) : m.role = MEMBER /\ m.user_id = "u2"

\* C20: every CompanyMember row refers to a registered user: its user_id is
\* the email of an existing User row, also when the row comes from redeeming
\* a targeted invitation that send_invitation_link issued for an arbitrary
\* address.  (Stated of the rows that carry an address; a row with a null
\* user_id is left aside.)
C20_MembersAreRegisteredUsers ==
    \A m \in BagToSet(members) :
        m.user_id # NoEmail => \E u \in users : u.email = m.user_id

\* C21: every CompanyMember row refers to an existing company: the company_id
\* of each row is the id of a Company row, in every reachable state (tokens
\* that were not signed by the system never decode; no request deletes a
\* Company).
C21_MembersReferToCompanies ==
    \A m \in BagToSet(members) : \E c \in companies : c.id = m.company_id

C21_Witness ==
    /\ ev = Ev("accept_invitation_link", "200", "")
    /\ Cardinality(companies) = 2
    /\ \E m \in BagToSet(members) : m.role = MEMBER /\ m.company_id = 2
    /\ \E m \in BagToSet(members) : m.role = ADMIN /\ m.company_id = 2

\* every session token a client holds with a company_id and a role has a
\* CompanyMember row with its email, company_id and role
TokensMatchRows ==
    \A e \in Emails :
        (sessions[e] # NoSession /\ sessions[e].role # NoRole) =>
           \E m \in BagToSet(members) :
               /\ m.user_id = sessions[e].email
               /\ m.company_id = sessions[e].company_id
               /\ m.role = sessions[e].role

\* C22: session tokens never overstate membership.  A token issued by
\* authenticate_user with a company_id and a role matches a CompanyMember row
\* with the same email, company_id and role, and keeps matching one, because
\* no request removes or changes a CompanyMember row; a token says Admin only
\* for a user who holds an Admin row.
C22_TokensNeverOverstate ==
    [][ /\ TokensMatchRows'
        /\ \A m \in BagToSet(members) : CopiesIn(m, members') >= CopiesIn(m, members)
        /\ \A e \in Emails :
              (sessions'[e] # NoSession /\ sessions'[e].role = ADMIN) =>
                 \E m \in BagToSet(members') : m.user_id = e /\ m.role = ADMIN
      ]_vars

C22_Witness ==
    /\ sessions["u1"] # NoSession /\ sessions["u1"].role = ADMIN
    /\ sessions["u2"] # NoSession /\ sessions["u2"].role = MEMBER
    /\ ev.op = "accept_invitation_link" /\ ev.status = "200"

====
